---- MODULE Spec2Model ----
(***************************************************************************)
(* Model of the Notion sync connector (src/src/connectors/notionSync.js):  *)
(* the module-scoped client handle, fetchNotionRecords, pushNotionRecord,  *)
(* syncNotionData and the two schema transforms.                           *)
(*                                                                         *)
(* An async function runs one continuation at a time.  Every action is one *)
(* such continuation: the invocation of an exported function up to its     *)
(* first await, the settling of a remote call together with the            *)
(* continuation of fetchNotionRecords / pushNotionRecord that awaited it,  *)
(* or the continuation of syncNotionData after its own await of            *)
(* fetchNotionRecords / pushNotionRecord (a later microtask; that await    *)
(* suspends even when the awaited promise is already rejected).  Between   *)
(* two continuations the host runs: the other caller may call any exported *)
(* function, so invocations overlap.                                       *)
(*                                                                         *)
(* Spec is the connector with the environment left as it was when the      *)
(* module was loaded; SpecEnv also lets the host change the environment at *)
(* any moment; SpecT applies the two schema transforms to bounded inputs.  *)
(***************************************************************************)
EXTENDS Integers, Sequences, FiniteSets, TLC

\* ---------------------------------------------------------------- bounds
MaxRecords == 2
MaxConstructions == 2
MaxTags == 2

\* ------------------------------------------------------------- JS values
\* The JS values undefined and null, where a string is expected.
Undefined == "<undefined>"
Null == "<null>"

\* JS truthiness of a string-or-undefined-or-null value.
Truthy(v) == v \notin {Undefined, Null, ""}

\* a || b
Or(a, b) == IF Truthy(a) THEN a ELSE b

\* An optional structured value: a property that may be missing (undefined).
Missing == [has |-> FALSE]
Some(x) == [has |-> TRUE, v |-> x]

\* new Error(message)
Error(msg) == [name |-> "Error", message |-> msg]
MissingCredential == Error("NOTION_API_KEY environment variable is required")

\* The error a failing remote call rejects with (thrown by the Notion SDK).
RemoteApiError == Error("notion request failed")

\* ------------------------------------------------------ input domains
ApiKeys == {Undefined, "", "secret-1"}
DatabaseIds == {Undefined, "db-default"}
ArgDatabaseIds == {Undefined, "", "db-explicit"}
Filters == {Undefined, "filter-1"}
PageIds == {Undefined, "", "page-123"}
PropsData == {"props-A"}
Directions == {Undefined, "pull", "push", "bidirectional"}

\* Local records as syncNotionData reads them: properties and notionPageId.
McpRecords ==
    { [properties |-> "props-A", notionPageId |-> Undefined],
      [properties |-> "props-B", notionPageId |-> "page-123"] }

RECURSIVE SeqsUpTo(_, _)
SeqsUpTo(S, n) ==
    IF n = 0 THEN {<<>>}
    ELSE LET shorter == SeqsUpTo(S, n - 1)
         IN  shorter \cup { Append(s, x) : s \in {t \in shorter : Len(t) = n - 1}, x \in S }

\* Pages as the remote API returns them from a database query.
RawPage(id) ==
    [object |-> "page", id |-> id, properties |-> "remote-props-of-" \o id,
     created_time |-> "created-" \o id, last_edited_time |-> "edited-" \o id]
QueryResponse(request) ==
    [results |-> IF request.database_id = "db-explicit"
                 THEN <<RawPage("p2"), RawPage("p1")>>
                 ELSE IF request.database_id = "db-default"
                 THEN <<RawPage("p1")>>
                 ELSE <<>>]

\* The page object the remote API answers a create or an update with.
PushResponse(method, request) ==
    [object |-> "page",
     id |-> IF method = "pages.update" THEN request.page_id ELSE "new-page",
     properties |-> request.properties]

\* The callers whose invocations may overlap, and the inputs each draws from.
Callers == {1, 2}
FetchArgs(c) ==
    IF c = 1
    THEN [databaseId : ArgDatabaseIds, filter : Filters]
    ELSE [databaseId : {Undefined}, filter : {Undefined}]
PushArgs(c) ==
    IF c = 1
    THEN [databaseId : ArgDatabaseIds, data : PropsData, pageId : PageIds]
    ELSE [databaseId : {Undefined}, data : {"props-B"}, pageId : {Undefined, "page-123"}]
SyncOptions(c) ==
    IF c = 1
    THEN [databaseId : {Undefined, "db-explicit"}, direction : Directions,
          mcpRecords : {Missing} \cup { Some(s) : s \in SeqsUpTo(McpRecords, MaxRecords) }]
    ELSE [databaseId : {Undefined}, direction : {"push"},
          mcpRecords : { Some(<<r>>) : r \in {[properties |-> "props-B", notionPageId |-> "page-123"]} }]

\* LocalRecord fields as transformMCPToNotion reads them.
LocalNames == {Undefined, "", "Alpha"}
LocalDescriptions == {Undefined, "", "about alpha"}
LocalStatuses == {Undefined, "", "Active"}
TagNames == {"", "t1", "t2"}
LocalRecords ==
    [name : LocalNames, description : LocalDescriptions, status : LocalStatuses,
     tags : {Missing} \cup { Some(s) : s \in SeqsUpTo(TagNames, MaxTags) }]

\* Remote property values with any nested path missing.  An element Missing in a
\* list is a null element.
TextItems(strings) ==
    {Missing, Some([text |-> Missing])}
        \cup { Some([text |-> Some([content |-> c])]) : c \in strings }
TextLists(strings) ==
    {Missing, Some(<<>>)}
        \cup { Some(<<x>>) : x \in TextItems(strings) }
        \cup { Some(<<Some([text |-> Some([content |-> "first"])]), x>>) :
                  x \in TextItems(strings) \ {Missing} }
RemoteNames ==
    {Missing} \cup { Some([title |-> t]) : t \in TextLists({Undefined, "", "Alpha"}) }
RemoteDescriptions ==
    {Missing} \cup { Some([rich_text |-> t]) : t \in TextLists({Undefined, "about alpha"}) }
RemoteStatuses ==
    {Missing, Some([select |-> Missing])}
        \cup { Some([select |-> Some([name |-> n])]) : n \in {Undefined, "", "Active"} }
TagItems == {Missing} \cup { Some([name |-> n]) : n \in {Undefined} \cup TagNames }
RemoteTags ==
    {Missing, Some([multi_select |-> Missing])}
        \cup { Some([multi_select |-> Some(s)]) : s \in SeqsUpTo(TagItems, MaxTags) }
RemoteProperties ==
    [Name : RemoteNames, Description : RemoteDescriptions, Status : RemoteStatuses,
     Tags : RemoteTags]
RemoteRecord(properties) ==
    [id |-> "p1", properties |-> properties, createdTime |-> "t1", lastEditedTime |-> "t2"]

VARIABLES
    env,            \* process.env: NOTION_API_KEY, NOTION_DATABASE_ID
    loadEnv,        \* history: process.env as it was when the module was loaded
    notionConfig,   \* the module-scoped configuration object
    notion,         \* the module-scoped client handle (NoClient = null)
    constructed,    \* history: number of `new Client(...)` so far
    op,             \* per caller: the exported function it invoked last
    args,           \* per caller: its arguments
    pc,             \* per caller: where that invocation stands
    idx,            \* per caller, syncNotionData: position in mcpRecords of the push awaited
    results,        \* per caller, syncNotionData: the results object
    inner,          \* per caller, syncNotionData: how the awaited inner call ended
    outcome,        \* per caller: how the invocation ended: returned value or thrown error
    calls,          \* per caller, history: remote calls issued by the invocation, in order
    built,          \* per caller, history: the invocation constructed a client handle
    tOp, tIn, tOut  \* schema transforms: function applied, its input, its result

connVars == <<env, loadEnv, notionConfig, notion, constructed, op, args, pc, idx,
              results, inner, outcome, calls, built>>
tVars == <<tOp, tIn, tOut>>
vars == <<env, loadEnv, notionConfig, notion, constructed, op, args, pc, idx,
          results, inner, outcome, calls, built, tOp, tIn, tOut>>

\* ------------------------------------------------------- configuration
\* const notionConfig = { apiKey: process.env.X || '', databaseId: ... || '' }
LoadConfig(e) ==
    [apiKey |-> Or(e.NOTION_API_KEY, ""), databaseId |-> Or(e.NOTION_DATABASE_ID, "")]

\* Variant: the environment is read anew whenever an operation runs.
Config_fromEnv == LoadConfig(env)

\* The configuration an operation reads when it runs: notionConfig.apiKey,
\* notionConfig.databaseId.
Config == notionConfig

\* let notion = null
NoClient == [auth |-> Null, serial |-> 0]
\* new Client({ auth })
Client(auth, serial) == [auth |-> auth, serial |-> serial]

\* Variant: no check of the credential.
initializeClient_unchecked(cfg, n, c) ==
    [threw |-> FALSE, error |-> MissingCredential,
     notion |-> Client(cfg.apiKey, c + 1), constructed |-> c + 1]

\* initializeClient(): the handle and construction count after the call, and
\* whether it threw.
initializeClient(cfg, n, c) ==
    IF ~Truthy(cfg.apiKey)
    THEN [threw |-> TRUE, error |-> MissingCredential, notion |-> n, constructed |-> c]
    ELSE [threw |-> FALSE, error |-> MissingCredential,
          notion |-> Client(cfg.apiKey, c + 1), constructed |-> c + 1]

\* Variant: the handle is constructed on every use, cached or not.
EnsureClient_always(cfg, n, c) == initializeClient(cfg, n, c)

\* if (!notion) initializeClient();
EnsureClient(cfg, n, c) ==
    IF n = NoClient
    THEN initializeClient(cfg, n, c)
    ELSE [threw |-> FALSE, error |-> MissingCredential, notion |-> n, constructed |-> c]

\* ------------------------------------------------------- remote requests
NoResult == [none |-> TRUE]

\* Variant: the configured default wins over the argument.
QueryRequest_configFirst(cfg, databaseId, filter) ==
    IF Truthy(filter)
    THEN [database_id |-> Or(cfg.databaseId, databaseId), filter |-> filter]
    ELSE [database_id |-> Or(cfg.databaseId, databaseId)]

\* filter = null by default
FilterParam(filter) == IF filter = Undefined THEN Null ELSE filter

\* The query fetchNotionRecords builds.
QueryRequest(cfg, databaseId, filter) ==
    IF Truthy(filter)
    THEN [database_id |-> Or(databaseId, cfg.databaseId), filter |-> filter]
    ELSE [database_id |-> Or(databaseId, cfg.databaseId)]

\* pageId = null by default
PageIdParam(pageId) == IF pageId = Undefined THEN Null ELSE pageId

\* Variant: pageId !== null instead of the truthiness test.
PushMethod_notNull(pageId) == IF pageId # Null THEN "pages.update" ELSE "pages.create"

\* The method pushNotionRecord calls and the request it sends.
PushMethod(pageId) == IF Truthy(pageId) THEN "pages.update" ELSE "pages.create"
PushRequest(cfg, databaseId, data, pageId) ==
    IF Truthy(pageId)
    THEN [page_id |-> pageId, properties |-> data]
    ELSE [parent |-> [database_id |-> Or(databaseId, cfg.databaseId)], properties |-> data]

\* One entry of the history of remote calls.
RemoteCall(method, request, client, rec) ==
    [method |-> method, request |-> request, client |-> client.serial, rec |-> rec,
     status |-> "pending", result |-> NoResult]

Settle(cl, status, result) ==
    [cl EXCEPT ![Len(cl)].status = status, ![Len(cl)].result = result]

\* response.results.map(page => ({ id, properties, createdTime, lastEditedTime }))
MapPage(page) ==
    [id |-> page.id, properties |-> page.properties,
     createdTime |-> page.created_time, lastEditedTime |-> page.last_edited_time]
MapPages(pages) == [k \in 1..Len(pages) |-> MapPage(pages[k])]

\* ------------------------------------------------------- syncNotionData
EmptyResults == [pulled |-> <<>>, pushed |-> <<>>, errors |-> <<>>]
NoOutcome == [kind |-> "none"]
Return(v) == [kind |-> "return", value |-> v]
Throw(e) == [kind |-> "throw", error |-> e]
NoArgs == [none |-> TRUE]

\* const { databaseId, direction = 'pull', mcpRecords = [] } = options
Direction(options) == IF options.direction = Undefined THEN "pull" ELSE options.direction
Records(options) == IF options.mcpRecords.has THEN options.mcpRecords.v ELSE <<>>

\* for (const record of mcpRecords): the record of the i-th iteration.
RecordAt(recs, i) == recs[i]

\* results.pushed.push(pushed)
RecordPushed(res, response) == [res EXCEPT !.pushed = Append(@, response)]
\* Variant: a failed push leaves no trace in the results.
RecordPushError_lost(res, record, error) == res

\* results.errors.push({ record, error: error.message })
RecordPushError(res, record, error) ==
    [res EXCEPT !.errors = Append(@, [record |-> record, error |-> error.message])]

\* Variant: the remaining pushes are all issued at once (Promise.all).
PushIteration_fanout(cfg, options, i, res, n, c, cl, b) ==
    LET recs == Records(options)
        e == EnsureClient(cfg, n, c)
    IN  IF i > Len(recs)
        THEN [pc |-> "done", idx |-> 0, results |-> res, notion |-> n, constructed |-> c,
              calls |-> cl, built |-> b, inner |-> NoOutcome, outcome |-> Return(res)]
        ELSE IF e.threw
        THEN [pc |-> "sync_push_resume", idx |-> i, results |-> res, notion |-> n,
              constructed |-> c, calls |-> cl, built |-> b,
              inner |-> Throw(e.error), outcome |-> NoOutcome]
        ELSE [pc |-> "sync_push_await", idx |-> Len(recs), results |-> res,
              notion |-> e.notion, constructed |-> e.constructed,
              calls |-> cl \o
                 [k \in 1..(Len(recs) - i + 1) |->
                    LET record == recs[i + k - 1]
                        pageId == PageIdParam(Or(record.notionPageId, Null))
                    IN  RemoteCall(PushMethod(pageId),
                            PushRequest(cfg, options.databaseId, record.properties, pageId),
                            e.notion, i + k - 1)],
              built |-> (b \/ e.constructed > c), inner |-> NoOutcome,
              outcome |-> NoOutcome]

\* The push loop at the head of its i-th iteration: no record left, return the
\* results; otherwise call pushNotionRecord(databaseId, record.properties,
\* record.notionPageId || null) and await it.  pushNotionRecord runs up to its
\* awaited create or update, or throws for want of a client; either way
\* syncNotionData is suspended at its await.
PushIteration(cfg, options, i, res, n, c, cl, b) ==
    LET recs == Records(options) IN
    IF i > Len(recs)
    THEN [pc |-> "done", idx |-> 0, results |-> res, notion |-> n, constructed |-> c,
          calls |-> cl, built |-> b, inner |-> NoOutcome, outcome |-> Return(res)]
    ELSE LET record == RecordAt(recs, i)
             pageId == PageIdParam(Or(record.notionPageId, Null))
             e == EnsureClient(cfg, n, c)
         IN  IF e.threw
             THEN [pc |-> "sync_push_resume", idx |-> i, results |-> res, notion |-> n,
                   constructed |-> c, calls |-> cl, built |-> b,
                   inner |-> Throw(e.error), outcome |-> NoOutcome]
             ELSE [pc |-> "sync_push_await", idx |-> i, results |-> res,
                   notion |-> e.notion, constructed |-> e.constructed,
                   calls |-> Append(cl, RemoteCall(PushMethod(pageId),
                                PushRequest(cfg, options.databaseId, record.properties, pageId),
                                e.notion, i)),
                   built |-> (b \/ e.constructed > c), inner |-> NoOutcome,
                   outcome |-> NoOutcome]

\* The pull phase of syncNotionData: call fetchNotionRecords(databaseId) and
\* await it.  fetchNotionRecords runs up to its awaited query, or throws for
\* want of a client; either way syncNotionData is suspended at its await.
PullPhase(cfg, options, res, n, c, cl, b) ==
    LET e == EnsureClient(cfg, n, c) IN
    IF e.threw
    THEN [pc |-> "sync_pull_resume", idx |-> 0, results |-> res, notion |-> n,
          constructed |-> c, calls |-> cl, built |-> b,
          inner |-> Throw(e.error), outcome |-> NoOutcome]
    ELSE [pc |-> "sync_pull_await", idx |-> 0, results |-> res,
          notion |-> e.notion, constructed |-> e.constructed,
          calls |-> Append(cl, RemoteCall("databases.query",
                       QueryRequest(cfg, options.databaseId, FilterParam(Undefined)),
                       e.notion, 0)),
          built |-> (b \/ e.constructed > c), inner |-> NoOutcome, outcome |-> NoOutcome]

\* What syncNotionData does once the pull phase is over (or was skipped).
AfterPull(cfg, options, res, n, c, cl, b) ==
    IF Direction(options) \in {"push", "bidirectional"}
    THEN PushIteration(cfg, options, 1, res, n, c, cl, b)
    ELSE [pc |-> "done", idx |-> 0, results |-> res, notion |-> n, constructed |-> c,
          calls |-> cl, built |-> b, inner |-> NoOutcome, outcome |-> Return(res)]

\* Variant: a failed pull is swallowed and the push phase runs.
PullFailed_swallowed(cfg, options, res, n, c, cl, b, error) ==
    AfterPull(cfg, options, res, n, c, cl, b)

\* catch (error) { console.error(...); throw error; } around the pull phase.
PullFailed(cfg, options, res, n, c, cl, b, error) ==
    [pc |-> "done", idx |-> 0, results |-> res, notion |-> n, constructed |-> c,
     calls |-> cl, built |-> b, inner |-> NoOutcome, outcome |-> Throw(error)]

\* The effect of one continuation of caller c's invocation on its frame and on
\* the module-scoped handle.
Apply(c, eff) ==
    /\ pc' = [pc EXCEPT ![c] = eff.pc]
    /\ idx' = [idx EXCEPT ![c] = eff.idx]
    /\ results' = [results EXCEPT ![c] = eff.results]
    /\ inner' = [inner EXCEPT ![c] = eff.inner]
    /\ calls' = [calls EXCEPT ![c] = eff.calls]
    /\ built' = [built EXCEPT ![c] = eff.built]
    /\ outcome' = [outcome EXCEPT ![c] = eff.outcome]
    /\ notion' = eff.notion
    /\ constructed' = eff.constructed

\* A frame that is not in syncNotionData.
Plain(p, n, k, cl, b, out) ==
    [pc |-> p, idx |-> 0, results |-> EmptyResults, notion |-> n, constructed |-> k,
     calls |-> cl, built |-> b, inner |-> NoOutcome, outcome |-> out]

\* ------------------------------------------------------ schema transforms
\* Variant: Description is filled from the name.
transformMCPToNotion_descAsName(useCaseData) ==
    [Name |->
        Some([title |-> Some(<<Some([text |->
            Some([content |-> Or(useCaseData.name, "Untitled")])])>>)]),
     Description |->
        Some([rich_text |-> Some(<<Some([text |->
            Some([content |-> Or(useCaseData.name, "")])])>>)]),
     Status |->
        Some([select |-> Some([name |-> Or(useCaseData.status, "Draft")])]),
     Tags |->
        Some([multi_select |->
            Some(LET tags == IF useCaseData.tags.has THEN useCaseData.tags.v ELSE <<>>
                 IN  [k \in 1..Len(tags) |-> Some([name |-> tags[k]])])])]

\* transformMCPToNotion(useCaseData): the Notion properties object.
transformMCPToNotion(useCaseData) ==
    [Name |->
        Some([title |-> Some(<<Some([text |->
            Some([content |-> Or(useCaseData.name, "Untitled")])])>>)]),
     Description |->
        Some([rich_text |-> Some(<<Some([text |->
            Some([content |-> Or(useCaseData.description, "")])])>>)]),
     Status |->
        Some([select |-> Some([name |-> Or(useCaseData.status, "Draft")])]),
     Tags |->
        Some([multi_select |->
            Some(LET tags == IF useCaseData.tags.has THEN useCaseData.tags.v ELSE <<>>
                 IN  [k \in 1..Len(tags) |-> Some([name |-> tags[k]])])])]

\* o?.[0] on an optional list
First(list) == IF list.has /\ Len(list.v) > 0 THEN list.v[1] ELSE Missing
\* o?.field on an optional object whose field holds an optional object
Field(o, f) == IF o.has THEN o.v[f] ELSE Missing
\* o?.field on an optional object whose field holds a string
Leaf(o, f) == IF o.has THEN o.v[f] ELSE Undefined

\* The TypeError of props.Name on undefined properties, and of tag.name on a
\* null element.
TypeErrorProperties ==
    [name |-> "TypeError", message |-> "Cannot read properties of undefined (reading 'Name')"]
TypeErrorTag ==
    [name |-> "TypeError", message |-> "Cannot read properties of null (reading 'name')"]

\* transformNotionToMCP(notionPage): the record it returns, or the error it throws.
transformNotionToMCP(notionPage) ==
    IF ~notionPage.properties.has
    THEN Throw(TypeErrorProperties)
    ELSE
    LET props == notionPage.properties.v
        multi == Field(props.Tags, "multi_select")
    IN  IF multi.has /\ \E k \in 1..Len(multi.v) : ~multi.v[k].has
        THEN Throw(TypeErrorTag)
        ELSE Return(
          [notionPageId |-> notionPage.id,
           name |-> Or(Leaf(Field(First(Field(props.Name, "title")), "text"), "content"), ""),
           description |->
               Or(Leaf(Field(First(Field(props.Description, "rich_text")), "text"),
                       "content"), ""),
           status |-> Or(Leaf(Field(props.Status, "select"), "name"), ""),
           tags |-> IF multi.has
                    THEN [k \in 1..Len(multi.v) |-> multi.v[k].v.name]
                    ELSE <<>>,
           createdAt |-> notionPage.createdTime,
           updatedAt |-> notionPage.lastEditedTime])

\* ------------------------------------------------------------- actions
\* The host changes an environment variable after the module was loaded.
SetEnvApiKey ==
    /\ \E v \in ApiKeys : v # env.NOTION_API_KEY /\ env' = [env EXCEPT !.NOTION_API_KEY = v]
    /\ UNCHANGED <<loadEnv, notionConfig, notion, constructed, op, args, pc, idx,
                   results, inner, outcome, calls, built>>
    /\ UNCHANGED tVars

SetEnvDatabaseId ==
    /\ \E v \in DatabaseIds :
          v # env.NOTION_DATABASE_ID /\ env' = [env EXCEPT !.NOTION_DATABASE_ID = v]
    /\ UNCHANGED <<loadEnv, notionConfig, notion, constructed, op, args, pc, idx,
                   results, inner, outcome, calls, built>>
    /\ UNCHANGED tVars

\* Caller c invokes initializeClient().
CallInitializeClient(c) ==
    /\ pc[c] = "idle"
    /\ Truthy(Config.apiKey) => constructed < MaxConstructions
    /\ LET r == initializeClient(Config, notion, constructed) IN
         /\ op' = [op EXCEPT ![c] = "initializeClient"]
         /\ args' = [args EXCEPT ![c] = NoArgs]
         /\ Apply(c, Plain("done", r.notion, r.constructed, <<>>, ~r.threw,
                           IF r.threw THEN Throw(r.error) ELSE Return(r.notion)))
    /\ UNCHANGED <<env, loadEnv, notionConfig>>
    /\ UNCHANGED tVars

\* Caller c invokes fetchNotionRecords(databaseId, filter): it runs up to
\* `await notion.databases.query(query)`, or throws for want of a client.
CallFetch(c) ==
    /\ pc[c] = "idle"
    /\ \E a \in FetchArgs(c) :
         LET e == EnsureClient(Config, notion, constructed) IN
         /\ op' = [op EXCEPT ![c] = "fetchNotionRecords"]
         /\ args' = [args EXCEPT ![c] = a]
         /\ IF e.threw
            THEN Apply(c, Plain("done", notion, constructed, <<>>, FALSE, Throw(e.error)))
            ELSE Apply(c, Plain("fetch_await", e.notion, e.constructed,
                           <<RemoteCall("databases.query",
                                QueryRequest(Config, a.databaseId, FilterParam(a.filter)),
                                e.notion, 0)>>,
                           e.constructed > constructed, NoOutcome))
    /\ UNCHANGED <<env, loadEnv, notionConfig>>
    /\ UNCHANGED tVars

\* The query settles: the mapped pages are returned, or the error is rethrown.
FetchSettle(c) ==
    /\ pc[c] = "fetch_await"
    /\ LET call == calls[c][Len(calls[c])]
           response == QueryResponse(call.request)
       IN
       \/ /\ calls' = [calls EXCEPT ![c] = Settle(@, "fulfilled", response)]
          /\ outcome' = [outcome EXCEPT ![c] = Return(MapPages(response.results))]
       \/ /\ calls' = [calls EXCEPT ![c] = Settle(@, "rejected", RemoteApiError)]
          /\ outcome' = [outcome EXCEPT ![c] = Throw(RemoteApiError)]
    /\ pc' = [pc EXCEPT ![c] = "done"]
    /\ UNCHANGED <<env, loadEnv, notionConfig, notion, constructed, op, args, idx,
                   results, inner, built>>
    /\ UNCHANGED tVars

\* Caller c invokes pushNotionRecord(databaseId, data, pageId): it runs up to the
\* awaited create or update, or throws for want of a client.
CallPush(c) ==
    /\ pc[c] = "idle"
    /\ \E a \in PushArgs(c) :
         LET e == EnsureClient(Config, notion, constructed)
             pageId == PageIdParam(a.pageId)
         IN
         /\ op' = [op EXCEPT ![c] = "pushNotionRecord"]
         /\ args' = [args EXCEPT ![c] = a]
         /\ IF e.threw
            THEN Apply(c, Plain("done", notion, constructed, <<>>, FALSE, Throw(e.error)))
            ELSE Apply(c, Plain("push_await", e.notion, e.constructed,
                           <<RemoteCall(PushMethod(pageId),
                                PushRequest(Config, a.databaseId, a.data, pageId),
                                e.notion, 0)>>,
                           e.constructed > constructed, NoOutcome))
    /\ UNCHANGED <<env, loadEnv, notionConfig>>
    /\ UNCHANGED tVars

\* The create or update settles: the response is returned, or the error rethrown.
PushSettle(c) ==
    /\ pc[c] = "push_await"
    /\ LET call == calls[c][Len(calls[c])]
           response == PushResponse(call.method, call.request)
       IN
       \/ /\ calls' = [calls EXCEPT ![c] = Settle(@, "fulfilled", response)]
          /\ outcome' = [outcome EXCEPT ![c] = Return(response)]
       \/ /\ calls' = [calls EXCEPT ![c] = Settle(@, "rejected", RemoteApiError)]
          /\ outcome' = [outcome EXCEPT ![c] = Throw(RemoteApiError)]
    /\ pc' = [pc EXCEPT ![c] = "done"]
    /\ UNCHANGED <<env, loadEnv, notionConfig, notion, constructed, op, args, idx,
                   results, inner, built>>
    /\ UNCHANGED tVars

\* Caller c invokes syncNotionData(options): it runs up to its first await, of
\* fetchNotionRecords or of the first pushNotionRecord, or to its return when
\* there is nothing to await.
CallSync(c) ==
    /\ pc[c] = "idle"
    /\ \E options \in SyncOptions(c) :
         /\ op' = [op EXCEPT ![c] = "syncNotionData"]
         /\ args' = [args EXCEPT ![c] = options]
         /\ IF Direction(options) \in {"pull", "bidirectional"}
            THEN Apply(c, PullPhase(Config, options, EmptyResults, notion, constructed,
                                    <<>>, FALSE))
            ELSE Apply(c, AfterPull(Config, options, EmptyResults, notion, constructed,
                                    <<>>, FALSE))
    /\ UNCHANGED <<env, loadEnv, notionConfig>>
    /\ UNCHANGED tVars

\* The pull query settles and fetchNotionRecords finishes: it returns the mapped
\* pages or rethrows the error.  syncNotionData stays suspended at its await.
SyncPullSettle(c) ==
    /\ pc[c] = "sync_pull_await"
    /\ LET call == calls[c][Len(calls[c])]
           response == QueryResponse(call.request)
       IN
       \/ /\ calls' = [calls EXCEPT ![c] = Settle(@, "fulfilled", response)]
          /\ inner' = [inner EXCEPT ![c] = Return(MapPages(response.results))]
       \/ /\ calls' = [calls EXCEPT ![c] = Settle(@, "rejected", RemoteApiError)]
          /\ inner' = [inner EXCEPT ![c] = Throw(RemoteApiError)]
    /\ pc' = [pc EXCEPT ![c] = "sync_pull_resume"]
    /\ UNCHANGED <<env, loadEnv, notionConfig, notion, constructed, op, args, idx,
                   results, outcome, built>>
    /\ UNCHANGED tVars

\* syncNotionData resumes after `await fetchNotionRecords(databaseId)`: the error
\* leaves it through the outer catch, or results.pulled is assigned and it runs
\* on to the first awaited push (or its return).
SyncPullResume(c) ==
    /\ pc[c] = "sync_pull_resume"
    /\ IF inner[c].kind = "throw"
       THEN Apply(c, PullFailed(Config, args[c], results[c], notion, constructed,
                                calls[c], built[c], inner[c].error))
       ELSE Apply(c, AfterPull(Config, args[c],
                               [results[c] EXCEPT !.pulled = inner[c].value],
                               notion, constructed, calls[c], built[c]))
    /\ UNCHANGED <<env, loadEnv, notionConfig, op, args>>
    /\ UNCHANGED tVars

\* The awaited create or update of record idx settles and pushNotionRecord
\* finishes: it returns the response or rethrows the error.  syncNotionData stays
\* suspended at its await.
SyncPushSettle(c) ==
    /\ pc[c] = "sync_push_await"
    /\ LET call == calls[c][Len(calls[c])]
           response == PushResponse(call.method, call.request)
       IN
       \/ /\ calls' = [calls EXCEPT ![c] = Settle(@, "fulfilled", response)]
          /\ inner' = [inner EXCEPT ![c] = Return(response)]
       \/ /\ calls' = [calls EXCEPT ![c] = Settle(@, "rejected", RemoteApiError)]
          /\ inner' = [inner EXCEPT ![c] = Throw(RemoteApiError)]
    /\ pc' = [pc EXCEPT ![c] = "sync_push_resume"]
    /\ UNCHANGED <<env, loadEnv, notionConfig, notion, constructed, op, args, idx,
                   results, outcome, built>>
    /\ UNCHANGED tVars

\* syncNotionData resumes after `await pushNotionRecord(...)` of record idx: the
\* response goes to results.pushed, or the inner catch files the error under
\* results.errors; the loop then runs on to the next awaited push (or the return).
SyncPushResume(c) ==
    /\ pc[c] = "sync_push_resume"
    /\ LET res == IF inner[c].kind = "throw"
                  THEN RecordPushError(results[c], RecordAt(Records(args[c]), idx[c]),
                                       inner[c].error)
                  ELSE RecordPushed(results[c], inner[c].value)
       IN  Apply(c, PushIteration(Config, args[c], idx[c] + 1, res, notion, constructed,
                                  calls[c], built[c]))
    /\ UNCHANGED <<env, loadEnv, notionConfig, op, args>>
    /\ UNCHANGED tVars

\* The caller's `await` receives the settled result; the invocation's locals are gone.
ReturnToCaller(c) ==
    /\ pc[c] = "done"
    /\ op' = [op EXCEPT ![c] = "none"]
    /\ args' = [args EXCEPT ![c] = NoArgs]
    /\ Apply(c, Plain("idle", notion, constructed, <<>>, FALSE, NoOutcome))
    /\ UNCHANGED <<env, loadEnv, notionConfig>>
    /\ UNCHANGED tVars

\* The frames of callers that have invoked nothing yet.
InitFrames ==
    /\ op = [c \in Callers |-> "none"]
    /\ args = [c \in Callers |-> NoArgs]
    /\ pc = [c \in Callers |-> "idle"]
    /\ idx = [c \in Callers |-> 0]
    /\ results = [c \in Callers |-> EmptyResults]
    /\ inner = [c \in Callers |-> NoOutcome]
    /\ outcome = [c \in Callers |-> NoOutcome]
    /\ calls = [c \in Callers |-> <<>>]
    /\ built = [c \in Callers |-> FALSE]

\* The state right after the module was loaded.
Init ==
    /\ env \in [NOTION_API_KEY : ApiKeys, NOTION_DATABASE_ID : DatabaseIds]
    /\ loadEnv = env
    /\ notionConfig = LoadConfig(env)
    /\ notion = NoClient
    /\ constructed = 0
    /\ InitFrames
    /\ tOp = "none"
    /\ tIn = NoArgs
    /\ tOut = NoOutcome

Next ==
    \/ \E c \in Callers : CallInitializeClient(c)
    \/ \E c \in Callers : CallFetch(c)
    \/ \E c \in Callers : FetchSettle(c)
    \/ \E c \in Callers : CallPush(c)
    \/ \E c \in Callers : PushSettle(c)
    \/ \E c \in Callers : CallSync(c)
    \/ \E c \in Callers : SyncPullSettle(c)
    \/ \E c \in Callers : SyncPullResume(c)
    \/ \E c \in Callers : SyncPushSettle(c)
    \/ \E c \in Callers : SyncPushResume(c)
    \/ \E c \in Callers : ReturnToCaller(c)

Spec == Init /\ [][Next]_vars

\* ------------------------------------- the host changes the environment
\* One caller uses the connector while the environment changes under it.
EnvCallers == {1}

NextEnv ==
    \/ SetEnvApiKey
    \/ SetEnvDatabaseId
    \/ \E c \in EnvCallers : CallInitializeClient(c)
    \/ \E c \in EnvCallers : CallFetch(c)
    \/ \E c \in EnvCallers : FetchSettle(c)
    \/ \E c \in EnvCallers : CallPush(c)
    \/ \E c \in EnvCallers : PushSettle(c)
    \/ \E c \in EnvCallers : CallSync(c)
    \/ \E c \in EnvCallers : SyncPullSettle(c)
    \/ \E c \in EnvCallers : SyncPullResume(c)
    \/ \E c \in EnvCallers : SyncPushSettle(c)
    \/ \E c \in EnvCallers : SyncPushResume(c)
    \/ \E c \in EnvCallers : ReturnToCaller(c)

SpecEnv == Init /\ [][NextEnv]_vars

\* ---------------------------------------------- the transforms on their own
\* transformMCPToNotion applied to a local record.
ApplyTransformMCPToNotion ==
    /\ tOp = "none"
    /\ \E record \in LocalRecords :
          /\ tOp' = "transformMCPToNotion"
          /\ tIn' = record
          /\ tOut' = Return(transformMCPToNotion(record))
    /\ UNCHANGED connVars

\* transformNotionToMCP applied to a remote record.
ApplyTransformNotionToMCP ==
    /\ tOp = "none"
    /\ \E properties \in {Missing} \cup { Some(p) : p \in RemoteProperties } :
          /\ tOp' = "transformNotionToMCP"
          /\ tIn' = RemoteRecord(properties)
          /\ tOut' = transformNotionToMCP(RemoteRecord(properties))
    /\ UNCHANGED connVars

\* transformNotionToMCP applied to the remote record that stores the properties
\* transformMCPToNotion made of a local record.
ApplyRoundTrip ==
    /\ tOp = "none"
    /\ \E record \in LocalRecords :
          /\ tOp' = "roundTrip"
          /\ tIn' = record
          /\ tOut' = transformNotionToMCP(RemoteRecord(Some(transformMCPToNotion(record))))
    /\ UNCHANGED connVars

InitT ==
    /\ env = [NOTION_API_KEY |-> Undefined, NOTION_DATABASE_ID |-> Undefined]
    /\ loadEnv = env
    /\ notionConfig = LoadConfig(env)
    /\ notion = NoClient
    /\ constructed = 0
    /\ InitFrames
    /\ tOp = "none"
    /\ tIn = NoArgs
    /\ tOut = NoOutcome

NextT ==
    \/ ApplyTransformMCPToNotion
    \/ ApplyTransformNotionToMCP
    \/ ApplyRoundTrip

SpecT == InitT /\ [][NextT]_vars

\* ================================================================ claims
Recs(c) == Records(args[c])
IsPushCall(call) == call.method \in {"pages.create", "pages.update"}
HasPushCall(c, i) == \E k \in 1..Len(calls[c]) : IsPushCall(calls[c][k]) /\ calls[c][k].rec = i
PushCallOf(c, i) ==
    calls[c][CHOOSE k \in 1..Len(calls[c]) : IsPushCall(calls[c][k]) /\ calls[c][k].rec = i]
PushSucceeded(c, i) == HasPushCall(c, i) /\ PushCallOf(c, i).status = "fulfilled"
Range(s) == { s[k] : k \in 1..Len(s) }
IsSync(c) == op[c] = "syncNotionData"
Awaiting(c) == pc[c] \in {"fetch_await", "push_await", "sync_pull_await", "sync_push_await"}

\* The responses of the first i records whose push the remote fulfilled, in order.
RECURSIVE ExpectedPushed(_, _)
ExpectedPushed(c, i) ==
    IF i = 0 THEN <<>>
    ELSE IF PushSucceeded(c, i)
         THEN Append(ExpectedPushed(c, i - 1), PushCallOf(c, i).result)
         ELSE ExpectedPushed(c, i - 1)

\* The {record, message} pairs of the first i records whose push failed, in order:
\* the remote rejected the call, or no call could be issued for want of a client.
RECURSIVE ExpectedErrors(_, _)
ExpectedErrors(c, i) ==
    IF i = 0 THEN <<>>
    ELSE IF PushSucceeded(c, i)
         THEN ExpectedErrors(c, i - 1)
         ELSE Append(ExpectedErrors(c, i - 1),
                     [record |-> Recs(c)[i],
                      error |-> IF HasPushCall(c, i) THEN PushCallOf(c, i).result.message
                                ELSE MissingCredential.message])

\* C1 (sync isolation): a syncNotionData call with direction "push" never throws;
\* when it is done it has returned its results, whose pushed list is exactly the
\* remote responses of the records whose push succeeded, in input order, and whose
\* errors list is exactly the {record, message} pairs of the records whose push
\* failed, in input order; every record is in exactly one of the two lists.  This
\* holds whatever the other caller does meanwhile.
SyncIsolation ==
    \A c \in Callers :
        (IsSync(c) /\ Direction(args[c]) = "push") =>
            /\ outcome[c].kind # "throw"
            /\ pc[c] = "done" =>
                 /\ outcome[c] = Return(results[c])
                 /\ results[c].pushed = ExpectedPushed(c, Len(Recs(c)))
                 /\ results[c].errors = ExpectedErrors(c, Len(Recs(c)))
                 /\ Len(results[c].pushed) + Len(results[c].errors) = Len(Recs(c))

\* A push-only sync of two records is done: the first push was rejected and the
\* second, issued after that failure, fulfilled.
SyncIsolationWitness ==
    \E c \in Callers :
        /\ IsSync(c) /\ Direction(args[c]) = "push" /\ pc[c] = "done"
        /\ Len(Recs(c)) = 2 /\ Len(calls[c]) = 2
        /\ calls[c][1].status = "rejected" /\ calls[c][2].status = "fulfilled"
        /\ Len(results[c].pushed) = 1 /\ Len(results[c].errors) = 1
        /\ results[c].errors[1].record = Recs(c)[1]

\* C2 (pull-phase fatality): in a bidirectional syncNotionData call whose pull
\* failed (the query was rejected, or no query could be issued), the call ends by
\* throwing that same error, returns no result, and issues no create or update.
PullPhaseFatality ==
    \A c \in Callers :
        (IsSync(c) /\ Direction(args[c]) = "bidirectional") =>
            /\ (Len(calls[c]) >= 1 /\ calls[c][1].status = "rejected") =>
                  /\ pc[c] \in {"sync_pull_resume", "done"}
                  /\ Len(calls[c]) = 1
                  /\ calls[c][1].method = "databases.query"
                  /\ pc[c] = "sync_pull_resume" => inner[c] = Throw(calls[c][1].result)
                  /\ pc[c] = "done" => outcome[c] = Throw(calls[c][1].result)
            /\ (pc[c] = "sync_pull_resume" /\ calls[c] = <<>>) =>
                  inner[c] = Throw(MissingCredential)
            /\ (pc[c] = "done" /\ calls[c] = <<>>) => outcome[c] = Throw(MissingCredential)
            /\ outcome[c].kind = "throw" =>
                  \A k \in 1..Len(calls[c]) : ~IsPushCall(calls[c][k])
            /\ (\E k \in 1..Len(calls[c]) : IsPushCall(calls[c][k])) =>
                  /\ calls[c][1].method = "databases.query"
                  /\ calls[c][1].status = "fulfilled"

\* A bidirectional sync with records to push ended on a rejected pull query.
PullPhaseFatalityWitness ==
    \E c \in Callers :
        /\ IsSync(c) /\ Direction(args[c]) = "bidirectional" /\ pc[c] = "done"
        /\ Len(Recs(c)) >= 1
        /\ Len(calls[c]) = 1 /\ calls[c][1].status = "rejected"
        /\ outcome[c].kind = "throw"

\* C3 as stated (credential gate): with no credential configured and no client
\* cached, every operation that needs the client (initializeClient, fetch, push,
\* sync in each direction, with records to push) fails with MissingCredential and
\* issues no remote call.
CredentialGateEveryOperation ==
    \A c \in Callers :
        (~Truthy(notionConfig.apiKey) /\ notion = NoClient /\ pc[c] = "done"
            /\ (IsSync(c) /\ Direction(args[c]) = "push" => Len(Recs(c)) > 0)) =>
            /\ outcome[c] = Throw(MissingCredential)
            /\ calls[c] = <<>>

\* C3 (amended): with no credential configured no client is ever constructed and
\* no remote call is ever issued; initializeClient, fetchNotionRecords,
\* pushNotionRecord and syncNotionData with direction pull or bidirectional throw
\* MissingCredential; syncNotionData with direction push returns normally, with
\* nothing pushed and one error entry per record carrying that error's message.
CredentialGate ==
    ~Truthy(notionConfig.apiKey) =>
        /\ notion = NoClient /\ constructed = 0
        /\ \A c \in Callers :
              /\ calls[c] = <<>>
              /\ ~Awaiting(c)
              /\ pc[c] \in {"sync_pull_resume", "sync_push_resume"} =>
                    inner[c] = Throw(MissingCredential)
              /\ pc[c] = "done" =>
                   IF IsSync(c) /\ Direction(args[c]) = "push"
                   THEN /\ outcome[c] = Return(results[c])
                        /\ results[c].pulled = <<>> /\ results[c].pushed = <<>>
                        /\ results[c].errors =
                              [k \in 1..Len(Recs(c)) |->
                                  [record |-> Recs(c)[k],
                                   error |-> MissingCredential.message]]
                   ELSE outcome[c] = Throw(MissingCredential)

\* Without a credential, a push-only sync of two records has returned normally.
CredentialGateWitness ==
    \E c \in Callers :
        /\ ~Truthy(notionConfig.apiKey) /\ notion = NoClient
        /\ IsSync(c) /\ Direction(args[c]) = "push" /\ pc[c] = "done"
        /\ Len(Recs(c)) = 2 /\ outcome[c].kind = "return" /\ Len(results[c].errors) = 2

PushBranchOf(c, call) ==
    /\ Truthy(args[c].pageId) =>
          /\ call.method = "pages.update"
          /\ call.request = [page_id |-> args[c].pageId, properties |-> args[c].data]
    /\ ~Truthy(args[c].pageId) =>
          /\ call.method = "pages.create"
          /\ DOMAIN call.request = {"parent", "properties"}
          /\ call.request.properties = args[c].data
    /\ pc[c] = "done" =>
          /\ call.status \in {"fulfilled", "rejected"}
          /\ call.status = "fulfilled" => outcome[c] = Return(call.result)
          /\ call.status = "rejected" => outcome[c] = Throw(call.result)

\* C4 as stated (push branch selection): every pushNotionRecord invocation issues
\* exactly one remote call, an update of pageId when pageId is present and a create
\* otherwise, and returns that call's response unchanged.
PushExactlyOneCallAlways ==
    \A c \in Callers :
        (op[c] = "pushNotionRecord" /\ pc[c] = "done") =>
            /\ Len(calls[c]) = 1
            /\ PushBranchOf(c, calls[c][1])

\* C4 (amended): a pushNotionRecord invocation for which a credential is
\* configured issues exactly one remote call, an update of pageId with the given
\* properties when pageId is non-empty and a create with the given properties
\* otherwise, and returns that call's response unchanged (or rethrows its error);
\* with no credential it issues no remote call and throws MissingCredential.
PushBranchSelection ==
    \A c \in Callers :
        op[c] = "pushNotionRecord" =>
            /\ Len(calls[c]) <= 1
            /\ Truthy(notionConfig.apiKey) =>
                  /\ Len(calls[c]) = 1
                  /\ PushBranchOf(c, calls[c][1])
            /\ ~Truthy(notionConfig.apiKey) =>
                  /\ calls[c] = <<>>
                  /\ pc[c] = "done" /\ outcome[c] = Throw(MissingCredential)

\* A push with a page id has returned the response of its update.
PushBranchSelectionWitness ==
    \E c \in Callers :
        /\ op[c] = "pushNotionRecord" /\ pc[c] = "done"
        /\ args[c].pageId = "page-123"
        /\ Len(calls[c]) = 1 /\ calls[c][1].method = "pages.update"
        /\ calls[c][1].status = "fulfilled" /\ outcome[c].kind = "return"

\* C5 (fallback database id): the database id of every query, and of every
\* create, is the databaseId argument when that is non-empty and the configured
\* default otherwise, whatever the filter.
FallbackDatabaseId ==
    \A c \in Callers : \A k \in 1..Len(calls[c]) :
        LET call == calls[c][k]
            want == IF args[c].databaseId \notin {Undefined, ""}
                    THEN args[c].databaseId ELSE notionConfig.databaseId
        IN  /\ call.method = "databases.query" => call.request.database_id = want
            /\ call.method = "pages.create" => call.request.parent.database_id = want

\* A fetch with a filter and an empty databaseId queried the configured default.
FallbackDatabaseIdWitness ==
    \E c \in Callers :
        /\ op[c] = "fetchNotionRecords" /\ Len(calls[c]) = 1
        /\ args[c].databaseId = "" /\ args[c].filter = "filter-1"
        /\ calls[c][1].request.filter = "filter-1"
        /\ notionConfig.databaseId = "db-default"
        /\ calls[c][1].request.database_id = "db-default"

\* C6 as stated (singleton): the client handle is constructed at most once.
SingletonConstructedOnce == constructed <= 1

IssuesCall(c) == Len(calls'[c]) > Len(calls[c])
LastCall(c) == calls'[c][Len(calls'[c])]

\* C6 (amended): fetchNotionRecords, pushNotionRecord and syncNotionData construct
\* the handle only when none is cached, and every remote call they issue goes
\* through the handle cached at that moment, which they leave in place; only an
\* explicit initializeClient() call constructs a handle while one is cached (and
\* it does so on every call, replacing the cached one).
LazySingleton ==
    [][ /\ constructed' > constructed =>
              \/ notion = NoClient
              \/ \E c \in Callers : CallInitializeClient(c)
        /\ \A c \in Callers : IssuesCall(c) =>
              /\ LastCall(c).client = notion'.serial
              /\ notion # NoClient => notion' = notion
      ]_vars

\* A sync issued its first push through the first handle and, after another
\* caller's initializeClient() replaced it, its second push through the second.
LazySingletonWitness ==
    \E c \in Callers :
        /\ IsSync(c) /\ Len(calls[c]) = 2
        /\ calls[c][1].client = 1 /\ calls[c][2].client = 2
        /\ constructed = 2 /\ notion.serial = 2

\* C7 as stated (configuration read at point of use): initializeClient succeeds
\* exactly when the environment holds a credential at the moment it runs, and a
\* call that falls back to the default database id sends the one the environment
\* holds at that moment.
ConfigReadAtPointOfUse ==
    [][ \A c \in Callers :
        /\ CallInitializeClient(c) =>
              (outcome'[c].kind = "return" <=> Truthy(env.NOTION_API_KEY))
        /\ (IssuesCall(c) /\ ~Truthy(args'[c].databaseId)) =>
              /\ LastCall(c).method = "databases.query" =>
                    LastCall(c).request.database_id = Or(env.NOTION_DATABASE_ID, "")
              /\ LastCall(c).method = "pages.create" =>
                    LastCall(c).request.parent.database_id = Or(env.NOTION_DATABASE_ID, "")
      ]_vars

\* C7 (amended): the credential and the default database id are the values the
\* environment held when the connector module was loaded: initializeClient
\* succeeds exactly when a credential was set at load time, and a call that falls
\* back to the default database id sends the load-time one, whatever the
\* environment holds when the operation runs.
ConfigReadAtModuleLoad ==
    [][ \A c \in Callers :
        /\ CallInitializeClient(c) =>
              (outcome'[c].kind = "return" <=> Truthy(loadEnv.NOTION_API_KEY))
        /\ (IssuesCall(c) /\ ~Truthy(args'[c].databaseId)) =>
              /\ LastCall(c).method = "databases.query" =>
                    LastCall(c).request.database_id = Or(loadEnv.NOTION_DATABASE_ID, "")
              /\ LastCall(c).method = "pages.create" =>
                    LastCall(c).request.parent.database_id =
                        Or(loadEnv.NOTION_DATABASE_ID, "")
      ]_vars

\* The environment holds a credential that was absent at load time, and a
\* push-only sync started since has filed its record under errors for want of it.
ConfigReadAtModuleLoadWitness ==
    \E c \in Callers :
        /\ IsSync(c) /\ pc[c] = "done" /\ Len(results[c].errors) = 1
        /\ results[c].errors[1].error = MissingCredential.message
        /\ loadEnv.NOTION_API_KEY = Undefined
        /\ env.NOTION_API_KEY = "secret-1"

\* C8 as stated (transforms are total): transformMCPToNotion never throws;
\* transformNotionToMCP never throws on a remote record with a properties mapping,
\* whichever nested paths are missing, and yields the empty string or the empty
\* tag list for each missing path.
TransformsTotal ==
    /\ tOp = "transformMCPToNotion" => tOut.kind = "return"
    /\ (tOp = "transformNotionToMCP" /\ tIn.properties.has) =>
          /\ tOut.kind = "return"
          /\ tOut.value.name # Undefined
          /\ tOut.value.description # Undefined
          /\ tOut.value.status # Undefined
          /\ \A k \in 1..Len(tOut.value.tags) : tOut.value.tags[k] # Undefined
          /\ ~Field(tIn.properties.v.Tags, "multi_select").has => tOut.value.tags = <<>>

Populated(record) ==
    /\ Truthy(record.name) /\ Truthy(record.description) /\ Truthy(record.status)
    /\ record.tags.has

\* C9 (round-trip stability): for a local record with name, description, status
\* and tags populated, transformNotionToMCP of the remote record that stores
\* transformMCPToNotion(record) returns the same name, description and status and
\* the same set of tags.
RoundTripStability ==
    (tOp = "roundTrip" /\ Populated(tIn)) =>
        /\ tOut.kind = "return"
        /\ tOut.value.name = tIn.name
        /\ tOut.value.description = tIn.description
        /\ tOut.value.status = tIn.status
        /\ Range(tOut.value.tags) = Range(tIn.tags.v)

\* The round trip of a populated record with two different tags.
RoundTripStabilityWitness ==
    /\ tOp = "roundTrip" /\ Populated(tIn)
    /\ Len(tIn.tags.v) = 2 /\ tIn.tags.v[1] # tIn.tags.v[2]
    /\ tOut.kind = "return" /\ Len(tOut.value.tags) = 2

\* C10 (sequential sync): within a syncNotionData invocation only the call issued
\* last can be outstanding, and it is exactly while the invocation awaits that
\* call; the pull query, if any, is the first call and in a bidirectional sync
\* precedes every push; the push calls are those of the records at positions
\* 1, 2, ... in that order, each issued after the one before it has settled.
SequentialSync ==
    \A c \in Callers :
        IsSync(c) =>
            LET cl == calls[c]
                offset == IF Len(cl) >= 1 /\ cl[1].method = "databases.query"
                          THEN 1 ELSE 0
            IN
            /\ \A k \in 1..(Len(cl) - 1) : cl[k].status # "pending"
            /\ (Len(cl) >= 1 /\ cl[Len(cl)].status = "pending")
                  <=> pc[c] \in {"sync_pull_await", "sync_push_await"}
            /\ Cardinality({k \in 1..Len(cl) : cl[k].status = "pending"}) <= 1
            /\ \A k \in 1..Len(cl) : cl[k].method = "databases.query" => k = 1
            /\ (Direction(args[c]) = "bidirectional" /\ Len(cl) >= 1) => offset = 1
            /\ \A k \in (offset + 1)..Len(cl) :
                  /\ IsPushCall(cl[k])
                  /\ cl[k].rec = k - offset
                  /\ cl[k].rec <= Len(Recs(c))
                  /\ cl[k].request.properties = Recs(c)[k - offset].properties

\* A bidirectional sync awaits its second push after the query and a failed
\* first push have settled, while the other caller's own call is outstanding.
SequentialSyncWitness ==
    \E c, d \in Callers :
        /\ c # d /\ Awaiting(d)
        /\ IsSync(c) /\ Direction(args[c]) = "bidirectional"
        /\ pc[c] = "sync_push_await" /\ idx[c] = 2
        /\ Len(calls[c]) = 3
        /\ calls[c][1].status = "fulfilled" /\ calls[c][2].status = "rejected"
        /\ calls[c][3].status = "pending"

====
